---- MODULE Spec2Model ----
(***************************************************************************)
(* vscode-problems-filtering: the filter predicate                         *)
(* (CliProblemApp::filter_problem), the display transform                  *)
(* (ProblemOutput::new) and the pipeline driver (run_app).                 *)
(*                                                                         *)
(* A Rust String is a sequence of characters; a character is named by a    *)
(* short string ("a", "A", "/", "U+00E9", ...) and carries the number of   *)
(* bytes of its UTF-8 encoding, since String::len and the slices of        *)
(* ProblemOutput::new count bytes.                                         *)
(***************************************************************************)
EXTENDS Integers, Sequences, FiniteSets, TLC

VARIABLES
    call,               \* pure-function specifications: the call under test
    ret,                \* its result: <<>> before the call, <<v>> after
    cli,                \* run_app: the parsed command line (CliProblemApp)
    source,             \* run_app: what read_fn yields for cli.input
    pc,                 \* run_app: position in the function body
    problems,           \* run_app: the decoded Vec<Problem>
    filtered_problems,  \* run_app: the Vec<ProblemOutput>
    out,                \* run_app: what was written to the sink, in order
    reads,              \* run_app: number of calls of read_fn
    result              \* run_app: "running", "Ok" or the error returned

vars == <<call, ret, cli, source, pc, problems, filtered_problems, out, reads, result>>

run_vars == <<cli, source, pc, problems, filtered_problems, out, reads, result>>

-----------------------------------------------------------------------------
(* Bounds of the model.                                                    *)

MaxMsgLen == 2

MaxTermLen == 2

MaxTerms == 2

MaxResLen == 4

Slack == 1

MaxRecords == 2

MaxCliTerms == 1

-----------------------------------------------------------------------------
(* Characters and strings.                                                 *)

SIGMA_UPPER == "U+03A3"

SIGMA_LOWER == "U+03C3"

SIGMA_FINAL == "U+03C2"

E_ACUTE == "U+00E9"

EURO == "U+20AC"

\* char::len_utf8
len_utf8(c) ==
    CASE c \in {SIGMA_UPPER, SIGMA_LOWER, SIGMA_FINAL, E_ACUTE} -> 2
      [] c = EURO -> 3
      [] OTHER -> 1

\* char::to_lowercase, on the characters of the model
char_to_lowercase(c) ==
    CASE c = "A" -> "a"
      [] c = "B" -> "b"
      [] c = SIGMA_UPPER -> SIGMA_LOWER
      [] OTHER -> c

\* char::is_cased (Unicode property Cased)
is_cased(c) == c \in {"a", "A", "b", "B", SIGMA_UPPER, SIGMA_LOWER, SIGMA_FINAL, E_ACUTE}

\* char::is_case_ignorable (Unicode property Case_Ignorable)
is_case_ignorable(c) == c \in {".", "'"}

\* case_ignorable_then_cased over the characters before position i, nearest first
RECURSIVE cased_before(_, _)
cased_before(s, i) ==
    IF i < 1 THEN FALSE
    ELSE IF is_case_ignorable(s[i]) THEN cased_before(s, i - 1)
    ELSE is_cased(s[i])

\* case_ignorable_then_cased over the characters from position i on
RECURSIVE cased_after(_, _)
cased_after(s, i) ==
    IF i > Len(s) THEN FALSE
    ELSE IF is_case_ignorable(s[i]) THEN cased_after(s, i + 1)
    ELSE is_cased(s[i])

\* map_uppercase_sigma: the Final_Sigma rule of str::to_lowercase
map_uppercase_sigma(s, i) ==
    IF cased_before(s, i - 1) /\ ~cased_after(s, i + 1) THEN SIGMA_FINAL ELSE SIGMA_LOWER

\* str::to_lowercase
to_lowercase(s) ==
    [i \in 1..Len(s) |->
        IF s[i] = SIGMA_UPPER THEN map_uppercase_sigma(s, i) ELSE char_to_lowercase(s[i])]

\* whether needle occurs in hay at character offset i (0-based)
RECURSIVE matches_at(_, _, _, _)
matches_at(hay, needle, i, j) ==
    IF j > Len(needle) THEN TRUE
    ELSE IF hay[i + j] # needle[j] THEN FALSE
    ELSE matches_at(hay, needle, i, j + 1)

\* str::contains: scan the offsets from the left
RECURSIVE contains_from(_, _, _)
contains_from(hay, needle, i) ==
    IF i + Len(needle) > Len(hay) THEN FALSE
    ELSE IF matches_at(hay, needle, i, 1) THEN TRUE
    ELSE contains_from(hay, needle, i + 1)

contains(hay, needle) == contains_from(hay, needle, 0)

-----------------------------------------------------------------------------
(* CliProblemApp::filter_problem                                           *)

\* struct Problem (without _other)
MkProblem(r, l, m) == [resource |-> r, start_line_number |-> l, message |-> m]

\* struct CliProblemApp (without input)
MkCli(inc, exc, ic, co, js) ==
    [include_terms |-> inc, exclude_terms |-> exc, ignore_case |-> ic,
     count_only |-> co, json |-> js]

filter_message(c, problem) ==
    IF c.ignore_case THEN to_lowercase(problem.message) ELSE problem.message

search_term(c, term) ==
    IF c.ignore_case THEN to_lowercase(term) ELSE term

\* include_terms.iter().all(..): left to right, stopping at the first failure
RECURSIVE all_include_from(_, _, _)
all_include_from(c, message, i) ==
    IF i > Len(c.include_terms) THEN TRUE
    ELSE IF ~contains(message, search_term(c, c.include_terms[i])) THEN FALSE
    ELSE all_include_from(c, message, i + 1)

all_include_present(c, problem) == all_include_from(c, filter_message(c, problem), 1)

\* exclude_terms.iter().all(..): left to right, stopping at the first failure
RECURSIVE no_exclude_from(_, _, _)
no_exclude_from(c, message, i) ==
    IF i > Len(c.exclude_terms) THEN TRUE
    ELSE IF contains(message, search_term(c, c.exclude_terms[i])) THEN FALSE
    ELSE no_exclude_from(c, message, i + 1)

no_exclude_present(c, problem) == no_exclude_from(c, filter_message(c, problem), 1)

\* a filter that accepts a record when either side holds
filter_problem_either(c, problem) ==
    all_include_present(c, problem) \/ no_exclude_present(c, problem)

filter_problem(c, problem) ==
    all_include_present(c, problem) /\ no_exclude_present(c, problem)

-----------------------------------------------------------------------------
(* ProblemOutput::new                                                      *)

MESSAGE_MAX_BYTES == 150

MESSAGE_KEEP_BYTES == 147

ELLIPSIS == <<".", ".", ".">>

\* the number of bytes of the characters lo..hi of s (summed by halves, so that
\* the evaluation stays shallow on long strings)
RECURSIVE bytes_between(_, _, _)
bytes_between(s, lo, hi) ==
    IF lo > hi THEN 0
    ELSE IF lo = hi THEN len_utf8(s[lo])
    ELSE LET mid == (lo + hi) \div 2
         IN  bytes_between(s, lo, mid) + bytes_between(s, mid + 1, hi)

\* String::len: the number of bytes of the UTF-8 encoding
str_len(s) == bytes_between(s, 1, Len(s))

\* the index in lo..hi of the character that starts at byte b (Len(s) + 1 for
\* the end of the string), 0 when b is inside a character or beyond the end
RECURSIVE char_at_byte(_, _, _, _)
char_at_byte(s, b, lo, hi) ==
    IF lo > hi THEN 0
    ELSE LET mid == (lo + hi) \div 2
             off == bytes_between(s, 1, mid - 1)
         IN  IF off = b THEN mid
             ELSE IF off < b THEN char_at_byte(s, b, mid + 1, hi)
             ELSE char_at_byte(s, b, lo, mid - 1)

char_index(s, b) == char_at_byte(s, b, 1, Len(s) + 1)

\* str::is_char_boundary
is_char_boundary(s, b) == char_index(s, b) # 0

\* &s[from..to]: aborts unless both ends are character boundaries
byte_slice(s, from, to) ==
    IF from <= to /\ is_char_boundary(s, from) /\ is_char_boundary(s, to)
    THEN [panic |-> FALSE,
          val |-> SubSeq(s, char_index(s, from), char_index(s, to) - 1)]
    ELSE [panic |-> TRUE, val |-> <<>>]

\* str::rfind('/'): the byte index of the last '/', -1 for None
RECURSIVE rfind_slash_from(_, _)
rfind_slash_from(s, i) ==
    IF i < 1 THEN -1
    ELSE IF s[i] = "/" THEN str_len(SubSeq(s, 1, i - 1))
    ELSE rfind_slash_from(s, i - 1)

rfind_slash(s) == rfind_slash_from(s, Len(s))

\* the display resource, or a panic of one of its slices
display_resource(resource) ==
    LET pos == rfind_slash(resource)
    IN  IF pos # -1
        THEN LET filename == byte_slice(resource, pos + 1, str_len(resource))
                 head == byte_slice(resource, 0, pos)
                 parent_pos == IF head.panic THEN -1 ELSE rfind_slash(head.val)
             IN  IF filename.panic \/ head.panic THEN [panic |-> TRUE, val |-> <<>>]
                 ELSE IF parent_pos # -1
                 THEN LET parent == byte_slice(resource, parent_pos + 1, pos)
                      IN  IF parent.panic THEN [panic |-> TRUE, val |-> <<>>]
                          ELSE [panic |-> FALSE, val |-> parent.val \o <<"/">> \o filename.val]
                 ELSE [panic |-> FALSE, val |-> filename.val]
        ELSE [panic |-> FALSE, val |-> resource]

\* the display message, or a panic of its slice
display_message(message) ==
    IF str_len(message) > MESSAGE_MAX_BYTES
    THEN LET kept == byte_slice(message, 0, MESSAGE_KEEP_BYTES)
         IN  IF kept.panic THEN [panic |-> TRUE, val |-> <<>>]
             ELSE [panic |-> FALSE, val |-> kept.val \o ELLIPSIS]
    ELSE [panic |-> FALSE, val |-> message]

Panicked == [panic |-> TRUE, resource |-> <<>>, message |-> <<>>, line |-> 0]

ProblemOutput_new(problem) ==
    LET resource == display_resource(problem.resource)
        message == display_message(problem.message)
    IN  IF resource.panic \/ message.panic THEN Panicked
        ELSE [panic |-> FALSE, resource |-> resource.val, message |-> message.val,
              line |-> problem.start_line_number]

-----------------------------------------------------------------------------
(* Decoding: serde_json::from_str::<Vec<Problem>>                          *)
(*                                                                         *)
(* The text read is modelled by its JSON structure: malformed text, a      *)
(* top-level value that is not an array, or an array of objects.  A member *)
(* of an object is [t, s, n]: t is "string", "uint" (an integer of         *)
(* 0..u32::MAX), "bignum" (an integer above u32::MAX), "negative",         *)
(* "float", "null" or "missing".  Members other than the three of Problem  *)
(* are captured by _other and never read; they are left out.               *)

JString(s) == [t |-> "string", s |-> s, n |-> 0]

JUint(n) == [t |-> "uint", s |-> <<>>, n |-> n]

JOther(t) == [t |-> t, s |-> <<>>, n |-> 0]

MkElem(r, l, m) == [resource |-> r, startLineNumber |-> l, message |-> m]

\* Deserialize for Problem: resource: String, startLineNumber: u32, message: String
deserialize_problem(e) ==
    IF e.resource.t = "string" /\ e.startLineNumber.t = "uint" /\ e.message.t = "string"
    THEN [ok |-> TRUE,
          val |-> MkProblem(e.resource.s, e.startLineNumber.n, e.message.s)]
    ELSE [ok |-> FALSE, val |-> MkProblem(<<>>, 0, <<>>)]

\* Deserialize for Vec<T>: element by element, the first error ends it
RECURSIVE deserialize_seq(_, _, _)
deserialize_seq(items, i, acc) ==
    IF i > Len(items) THEN [ok |-> TRUE, val |-> acc]
    ELSE LET p == deserialize_problem(items[i])
         IN  IF ~p.ok THEN [ok |-> FALSE, val |-> <<>>]
             ELSE deserialize_seq(items, i + 1, Append(acc, p.val))

from_str(text) ==
    IF text.kind = "array" THEN deserialize_seq(text.items, 1, <<>>)
    ELSE [ok |-> FALSE, val |-> <<>>]

-----------------------------------------------------------------------------
(* run_app                                                                 *)

validation_fails_negated(c) == c.include_terms = <<>> /\ ~(c.exclude_terms = <<>>)

\* the argument validation of run_app
validation_fails(c) == c.include_terms = <<>> /\ c.exclude_terms = <<>>

DisplayRow(o) == [resource |-> o.resource, message |-> o.message, line |-> o.line]

\* a collect that pushes each survivor to the front
RECURSIVE collect_reversed_from(_, _, _, _)
collect_reversed_from(c, ps, i, acc) ==
    IF i > Len(ps) THEN [panic |-> FALSE, val |-> acc]
    ELSE IF ~filter_problem(c, ps[i]) THEN collect_reversed_from(c, ps, i + 1, acc)
    ELSE LET o == ProblemOutput_new(ps[i])
         IN  IF o.panic THEN [panic |-> TRUE, val |-> <<>>]
             ELSE collect_reversed_from(c, ps, i + 1, <<DisplayRow(o)>> \o acc)

collect_reversed(c, ps) == collect_reversed_from(c, ps, 1, <<>>)

\* problems.iter().filter(..).map(ProblemOutput::new).collect(): one record at
\* a time, in order; a panic of ProblemOutput::new ends the run
RECURSIVE collect_from(_, _, _, _)
collect_from(c, ps, i, acc) ==
    IF i > Len(ps) THEN [panic |-> FALSE, val |-> acc]
    ELSE IF ~filter_problem(c, ps[i]) THEN collect_from(c, ps, i + 1, acc)
    ELSE LET o == ProblemOutput_new(ps[i])
         IN  IF o.panic THEN [panic |-> TRUE, val |-> <<>>]
             ELSE collect_from(c, ps, i + 1, Append(acc, DisplayRow(o)))

collect_filtered(c, ps) == collect_from(c, ps, 1, <<>>)

\* [String]::join(", ")
RECURSIVE join_from(_, _, _)
join_from(terms, i, acc) ==
    IF i > Len(terms) THEN acc
    ELSE join_from(terms, i + 1,
                   IF i = 1 THEN terms[i] ELSE acc \o <<",", " ">> \o terms[i])

join(terms) == join_from(terms, 1, <<>>)

\* one writeln! to the sink: which line, and what it was formatted from
Line(kind, n, text, rows) == [kind |-> kind, n |-> n, text |-> text, rows |-> rows]

Return(r) == pc' = "done" /\ result' = r

Validate ==
    /\ pc = "validate"
    /\ IF validation_fails(cli) THEN Return("Err(validation)") ELSE pc' = "read" /\ UNCHANGED result
    /\ UNCHANGED <<call, ret, cli, source, problems, filtered_problems, out, reads>>

Read ==
    /\ pc = "read"
    /\ reads' = reads + 1
    /\ IF source.ok THEN pc' = "decode" /\ UNCHANGED result ELSE Return("Err(read)")
    /\ UNCHANGED <<call, ret, cli, source, problems, filtered_problems, out>>

\* a decoder that drops the elements it cannot decode and keeps the rest
DecodeLenient ==
    /\ pc = "decode"
    /\ LET good == SelectSeq(source.text.items, LAMBDA e : deserialize_problem(e).ok)
       IN  problems' = [i \in 1..Len(good) |-> deserialize_problem(good[i]).val]
    /\ pc' = "filter"
    /\ UNCHANGED <<call, ret, cli, source, filtered_problems, out, reads, result>>

Decode ==
    /\ pc = "decode"
    /\ LET decoded == from_str(source.text)
       IN  IF decoded.ok
           THEN problems' = decoded.val /\ pc' = "filter" /\ UNCHANGED result
           ELSE Return("Err(decode)") /\ UNCHANGED problems
    /\ UNCHANGED <<call, ret, cli, source, filtered_problems, out, reads>>

Filter ==
    /\ pc = "filter"
    /\ LET collected == collect_filtered(cli, problems)
       IN  IF collected.panic
           THEN Return("panic") /\ UNCHANGED filtered_problems
           ELSE filtered_problems' = collected.val /\ pc' = "render" /\ UNCHANGED result
    /\ UNCHANGED <<call, ret, cli, source, problems, out, reads>>

\* a JSON branch that honours count_only by writing no body
JsonOutputUnlessCountOnly ==
    /\ pc = "render"
    /\ cli.json
    /\ out' = IF cli.count_only THEN out
              ELSE Append(out, Line("json", 0, <<>>, filtered_problems))
    /\ Return("Ok")
    /\ UNCHANGED <<call, ret, cli, source, problems, filtered_problems, reads>>

JsonOutput ==
    /\ pc = "render"
    /\ cli.json
    /\ out' = Append(out, Line("json", 0, <<>>, filtered_problems))
    /\ Return("Ok")
    /\ UNCHANGED <<call, ret, cli, source, problems, filtered_problems, reads>>

\* a total line that counts the survivors
WriteTotalOfFiltered ==
    /\ pc = "render"
    /\ ~cli.json
    /\ out' = Append(out, Line("total", Len(filtered_problems), <<>>, <<>>))
    /\ pc' = "include"
    /\ UNCHANGED <<call, ret, cli, source, problems, filtered_problems, reads, result>>

WriteTotal ==
    /\ pc = "render"
    /\ ~cli.json
    /\ out' = Append(out, Line("total", Len(problems), <<>>, <<>>))
    /\ pc' = "include"
    /\ UNCHANGED <<call, ret, cli, source, problems, filtered_problems, reads, result>>

WriteInclude ==
    /\ pc = "include"
    /\ out' = IF cli.include_terms # <<>>
              THEN Append(out, Line("include", 0, join(cli.include_terms), <<>>))
              ELSE out
    /\ pc' = "exclude"
    /\ UNCHANGED <<call, ret, cli, source, problems, filtered_problems, reads, result>>

WriteExclude ==
    /\ pc = "exclude"
    /\ out' = IF cli.exclude_terms # <<>>
              THEN Append(out, Line("exclude", 0, join(cli.exclude_terms), <<>>))
              ELSE out
    /\ pc' = "case"
    /\ UNCHANGED <<call, ret, cli, source, problems, filtered_problems, reads, result>>

WriteCase ==
    /\ pc = "case"
    /\ out' = IF cli.ignore_case THEN Append(out, Line("ignore_case", 0, <<>>, <<>>)) ELSE out
    /\ pc' = "blank"
    /\ UNCHANGED <<call, ret, cli, source, problems, filtered_problems, reads, result>>

WriteBlank ==
    /\ pc = "blank"
    /\ out' = Append(out, Line("blank", 0, <<>>, <<>>))
    /\ pc' = "filtered"
    /\ UNCHANGED <<call, ret, cli, source, problems, filtered_problems, reads, result>>

WriteFiltered ==
    /\ pc = "filtered"
    /\ out' = Append(out, Line("filtered", Len(filtered_problems), <<>>, <<>>))
    /\ IF cli.count_only THEN Return("Ok") ELSE pc' = "blank2" /\ UNCHANGED result
    /\ UNCHANGED <<call, ret, cli, source, problems, filtered_problems, reads>>

WriteBlank2 ==
    /\ pc = "blank2"
    /\ out' = Append(out, Line("blank", 0, <<>>, <<>>))
    /\ pc' = "table"
    /\ UNCHANGED <<call, ret, cli, source, problems, filtered_problems, reads, result>>

WriteTable ==
    /\ pc = "table"
    /\ out' = IF filtered_problems = <<>>
              THEN Append(out, Line("no_match", 0, <<>>, <<>>))
              ELSE Append(out, Line("table", 0, <<>>, filtered_problems))
    /\ Return("Ok")
    /\ UNCHANGED <<call, ret, cli, source, problems, filtered_problems, reads>>

-----------------------------------------------------------------------------
(* Input sets.                                                             *)

StringsUpTo(alphabet, n) == UNION {[1..k -> alphabet] : k \in 0..n}

ListsUpTo(S, n) == UNION {[1..k -> S] : k \in 0..n}

NoCli == MkCli(<<>>, <<>>, FALSE, FALSE, FALSE)

NoSource == [ok |-> FALSE, text |-> [kind |-> "none", items |-> <<>>]]

\* the run_app variables of a specification that only calls a pure function
RunIdle ==
    /\ cli = NoCli
    /\ source = NoSource
    /\ pc = "idle"
    /\ problems = <<>>
    /\ filtered_problems = <<>>
    /\ out = <<>>
    /\ reads = 0
    /\ result = "running"

AsciiLetters == {"a", "A"}

GreekLetters == {"a", "A", SIGMA_UPPER, SIGMA_LOWER}

\* the calls of filter_problem with at most maxTerms terms over both lists
IsFilterCall(alphabet, maxTerms) ==
    \E inc \in ListsUpTo(StringsUpTo(alphabet, MaxTermLen), maxTerms) :
    \E exc \in ListsUpTo(StringsUpTo(alphabet, MaxTermLen), maxTerms - Len(inc)) :
    \E ic \in BOOLEAN :
    \E m \in StringsUpTo(alphabet, MaxMsgLen) :
        call = [fn |-> "filter_problem",
                cli |-> MkCli(inc, exc, ic, FALSE, FALSE),
                problem |-> MkProblem(<<"f">>, 1, m)]

InitFilter ==
    /\ IsFilterCall(AsciiLetters, MaxTerms)
    /\ ret = <<>>
    /\ RunIdle

InitCase ==
    /\ IsFilterCall(GreekLetters, 1)
    /\ ret = <<>>
    /\ RunIdle

CallFilter ==
    /\ call.fn = "filter_problem"
    /\ ret = <<>>
    /\ ret' = <<filter_problem(call.cli, call.problem)>>
    /\ UNCHANGED <<call, run_vars>>

NextFilter == CallFilter

SpecFilter == InitFilter /\ [][NextFilter]_vars

SpecCase == InitCase /\ [][NextFilter]_vars

-----------------------------------------------------------------------------
(* Calls of ProblemOutput::new.                                            *)

Repeat(c, n) == [i \in 1..n |-> c]

\* run lengths near zero and near the two limits of the message
RunLens == (0..Slack) \cup ((MESSAGE_KEEP_BYTES - Slack)..(MESSAGE_MAX_BYTES + Slack))

\* a run of one character followed by a run of another
OutputMessages ==
    {Repeat(c1, n1) \o Repeat(c2, n2) :
        c1 \in {"a", E_ACUTE}, n1 \in RunLens, c2 \in {"a", E_ACUTE, EURO}, n2 \in RunLens}

OutputResources == StringsUpTo({"/", "a", E_ACUTE}, MaxResLen)

OutputCalls ==
    {[fn |-> "ProblemOutput::new", cli |-> NoCli, problem |-> MkProblem(r, 7, m)] :
        r \in OutputResources, m \in {<<>>, <<"a", E_ACUTE>>}}
    \cup
    {[fn |-> "ProblemOutput::new", cli |-> NoCli, problem |-> MkProblem(r, 7, m)] :
        r \in {<<"a">>, <<"a", "/", E_ACUTE, "/", "a">>}, m \in OutputMessages}

InitOutput ==
    /\ call \in OutputCalls
    /\ ret = <<>>
    /\ RunIdle

CallNew ==
    /\ call.fn = "ProblemOutput::new"
    /\ ret = <<>>
    /\ ret' = <<ProblemOutput_new(call.problem)>>
    /\ UNCHANGED <<call, run_vars>>

NextOutput == CallNew

SpecOutput == InitOutput /\ [][NextOutput]_vars

-----------------------------------------------------------------------------
(* Runs of run_app.                                                        *)

RunTerms == {<<"a">>, <<"b">>}

RunMessages == {<<"a", "b">>, <<"A">>}

RunResource == <<"d", "/", "s", "/", "f">>

ValidElems ==
    {MkElem(JString(RunResource), JUint(l), JString(m)) : l \in {1, 2}, m \in RunMessages}

InvalidElems ==
    {MkElem(JString(RunResource), JUint(1), JOther("missing")),
     MkElem(JString(RunResource), JOther("negative"), JString(<<"a", "b">>)),
     MkElem(JString(RunResource), JOther("bignum"), JString(<<"a", "b">>)),
     MkElem(JOther("null"), JUint(1), JString(<<"a", "b">>))}

Texts ==
    {[kind |-> "malformed", items |-> <<>>], [kind |-> "object", items |-> <<>>]}
    \cup {[kind |-> "array", items |-> items] :
            items \in ListsUpTo(ValidElems \cup InvalidElems, MaxRecords)}

\* read_fn fails, or yields a text
Sources == {NoSource} \cup {[ok |-> TRUE, text |-> t] : t \in Texts}

Clis ==
    {MkCli(inc, exc, ic, co, js) :
        inc \in ListsUpTo(RunTerms, MaxCliTerms), exc \in ListsUpTo(RunTerms, MaxCliTerms),
        ic \in BOOLEAN, co \in BOOLEAN, js \in BOOLEAN}

Init ==
    /\ call = [fn |-> "run_app", cli |-> NoCli, problem |-> MkProblem(<<>>, 0, <<>>)]
    /\ ret = <<>>
    /\ cli \in Clis
    /\ source \in Sources
    /\ pc = "validate"
    /\ problems = <<>>
    /\ filtered_problems = <<>>
    /\ out = <<>>
    /\ reads = 0
    /\ result = "running"

Next ==
    \/ Validate
    \/ Read
    \/ Decode
    \/ Filter
    \/ JsonOutput
    \/ WriteTotal
    \/ WriteInclude
    \/ WriteExclude
    \/ WriteCase
    \/ WriteBlank
    \/ WriteFiltered
    \/ WriteBlank2
    \/ WriteTable

Spec == Init /\ [][Next]_vars

-----------------------------------------------------------------------------
(* Properties of filter_problem.                                           *)

\* needle occurs in hay: some offset at which every character agrees
IsSubstring(needle, hay) ==
    \E k \in 0..(Len(hay) - Len(needle)) :
        \A j \in 1..Len(needle) : hay[k + j] = needle[j]

CaseTreated(ic, s) == IF ic THEN to_lowercase(s) ELSE s

IncludeSide(c, p) ==
    \A i \in DOMAIN c.include_terms :
        IsSubstring(CaseTreated(c.ignore_case, c.include_terms[i]),
                    CaseTreated(c.ignore_case, p.message))

ExcludeSide(c, p) ==
    \A i \in DOMAIN c.exclude_terms :
        ~IsSubstring(CaseTreated(c.ignore_case, c.exclude_terms[i]),
                     CaseTreated(c.ignore_case, p.message))

FilterReturned == call.fn = "filter_problem" /\ ret # <<>>

\* C1: filter_problem returns true exactly when every include term is a
\* substring of the case-treated message and no exclude term is; with an empty
\* include list the result is the exclude-only check, with an empty exclude
\* list the include-only check, and a message containing an exclude term is
\* rejected even when it contains every include term.
C1_IncludeAndExclude ==
    FilterReturned =>
        LET c == call.cli
            p == call.problem
        IN  /\ ret[1] = (IncludeSide(c, p) /\ ExcludeSide(c, p))
            /\ c.include_terms = <<>> => ret[1] = ExcludeSide(c, p)
            /\ c.exclude_terms = <<>> => ret[1] = IncludeSide(c, p)
            /\ (IncludeSide(c, p) /\ ~ExcludeSide(c, p)) => ret[1] = FALSE

\* C1 witness: a message with every include term and an exclude term, rejected
C1_Witness ==
    /\ FilterReturned
    /\ call.cli.include_terms # <<>>
    /\ call.cli.exclude_terms # <<>>
    /\ call.cli.include_terms[1] # call.cli.exclude_terms[1]
    /\ IncludeSide(call.cli, call.problem)
    /\ ~ExcludeSide(call.cli, call.problem)
    /\ ret = <<FALSE>>

\* the same letter in either case: equal after the simple lower-case mapping
SameLetter(x, y) == char_to_lowercase(x) = char_to_lowercase(y)

\* the strings that differ from s only in the case of letters
CaseVariants(s) ==
    {t \in [1..Len(s) -> GreekLetters] : \A i \in 1..Len(s) : SameLetter(s[i], t[i])}

VariantLists(terms) ==
    {ts \in [1..Len(terms) -> StringsUpTo(GreekLetters, MaxTermLen)] :
        \A i \in 1..Len(terms) : ts[i] \in CaseVariants(terms[i])}

\* C8: with ignore_case the result does not change when letters of the message
\* or of a term change case; without it a term matches only where it occurs
\* with identical case.
C8_CaseInvariant ==
    FilterReturned =>
        LET c == call.cli
            p == call.problem
        IN  IF c.ignore_case
            THEN \A m \in CaseVariants(p.message) :
                 \A inc \in VariantLists(c.include_terms) :
                 \A exc \in VariantLists(c.exclude_terms) :
                    filter_problem(MkCli(inc, exc, TRUE, FALSE, FALSE),
                                   MkProblem(p.resource, p.start_line_number, m)) = ret[1]
            ELSE ret[1] =
                    /\ \A i \in DOMAIN c.include_terms : IsSubstring(c.include_terms[i], p.message)
                    /\ \A i \in DOMAIN c.exclude_terms : ~IsSubstring(c.exclude_terms[i], p.message)

-----------------------------------------------------------------------------
(* Properties of ProblemOutput::new.                                       *)

NewReturned == call.fn = "ProblemOutput::new" /\ ret # <<>>

\* C4: the display message is decided by the number of characters: more than
\* 150 characters become the first 147 followed by "...", at most 150
\* characters are returned unchanged, whatever their number of bytes.  Stated
\* of the calls that return; C10 is about the calls that abort.
C4_TruncateByChars ==
    NewReturned =>
        LET m == call.problem.message
        IN  ~ret[1].panic =>
                ret[1].message =
                    IF Len(m) > 150 THEN SubSeq(m, 1, 147) \o <<".", ".", ".">> ELSE m

\* the index of the last '/' of s, 0 when it has none
LastSlash(s) ==
    IF \E i \in 1..Len(s) : s[i] = "/"
    THEN CHOOSE i \in 1..Len(s) : s[i] = "/" /\ \A j \in (i + 1)..Len(s) : s[j] # "/"
    ELSE 0

SlashCount(s) == Cardinality({i \in 1..Len(s) : s[i] = "/"})

\* C5: the display resource is the filename preceded by its parent segment and
\* a '/' whenever the path has a parent segment (the last two '/'-separated
\* segments), the resource itself when it has no '/', and never more than two
\* segments.  Paths with an empty filename or an empty parent segment (a
\* trailing, leading or doubled '/') are left open.
C5_LastTwoSegments ==
    (NewReturned /\ str_len(call.problem.message) <= MESSAGE_MAX_BYTES) =>
        LET r == call.problem.resource
            last == LastSlash(r)
            before == IF last = 0 THEN 0 ELSE LastSlash(SubSeq(r, 1, last - 1))
            filename == SubSeq(r, last + 1, Len(r))
            parent == SubSeq(r, before + 1, last - 1)
        IN  /\ ~ret[1].panic
            /\ last = 0 => ret[1].resource = r
            /\ (last # 0 /\ parent # <<>> /\ filename # <<>>) =>
                    ret[1].resource = parent \o <<"/">> \o filename
            /\ SlashCount(ret[1].resource) <= 1

\* C10: ProblemOutput::new returns a display record for every input record,
\* with line equal to the start line number.
C10_Total ==
    NewReturned => ~ret[1].panic /\ ret[1].line = call.problem.start_line_number

-----------------------------------------------------------------------------
(* Properties of run_app.                                                  *)

Running == call.fn = "run_app"

Errors == {"Err(validation)", "Err(read)", "Err(decode)"}

\* C2: with both term lists empty run_app fails with the validation error,
\* whatever the input and the flags, without calling read_fn and without
\* writing to the sink.
C2_ValidationBeforeIO ==
    (Running /\ cli.include_terms = <<>> /\ cli.exclude_terms = <<>>) =>
        /\ reads = 0
        /\ out = <<>>
        /\ pc \in {"validate", "done"}
        /\ pc = "done" => result = "Err(validation)"

\* C2 witness: the validation error on a readable, decodable, non-empty input
C2_Witness ==
    /\ Running
    /\ pc = "done"
    /\ result = "Err(validation)"
    /\ source.ok
    /\ from_str(source.text).ok
    /\ source.text.items # <<>>
    /\ cli.json

\* the positions of the records that filter_problem accepts
Matching == {i \in 1..Len(problems) : filter_problem(cli, problems[i])}

\* the k-th of them, counted from the front
NthMatching(k) == CHOOSE i \in Matching : Cardinality({j \in Matching : j < i}) = k - 1

\* survivors: as many rows as matching records, the k-th row made from the
\* k-th matching record
IsSurvivorSequence(rows) ==
    /\ Len(rows) = Cardinality(Matching)
    /\ \A k \in 1..Len(rows) : rows[k] = DisplayRow(ProblemOutput_new(problems[NthMatching(k)]))

Filtered == Running /\ pc \notin {"validate", "read", "decode", "filter"} /\ result \notin Errors

\* C3: the survivor sequence that run_app renders is exactly the subsequence of
\* the input records that filter_problem accepts, in their original order,
\* each mapped through ProblemOutput::new.
C3_SurvivorsInOrder ==
    Filtered =>
        /\ IsSurvivorSequence(filtered_problems)
        /\ \A i \in 1..Len(out) :
               out[i].kind \in {"json", "table"} => IsSurvivorSequence(out[i].rows)

\* C3 witness: a run that dropped a record between two survivors it rendered
C3_Witness ==
    /\ Filtered
    /\ pc = "done"
    /\ Len(problems) >= 2
    /\ 1 \in Matching
    /\ 2 \notin Matching
    /\ \E i \in 1..Len(out) : out[i].kind = "table" /\ Len(out[i].rows) = 1

DecodedOk == source.ok /\ from_str(source.text).ok

\* the survivors among the records i.. of ps
RECURSIVE SurvivorsFrom(_, _)
SurvivorsFrom(ps, i) ==
    IF i > Len(ps) THEN <<>>
    ELSE (IF filter_problem(cli, ps[i]) THEN <<DisplayRow(ProblemOutput_new(ps[i]))>> ELSE <<>>)
         \o SurvivorsFrom(ps, i + 1)

\* the survivors, from the inputs alone
Survivors == SurvivorsFrom(from_str(source.text).val, 1)

HumanReport ==
    LET n == Len(from_str(source.text).val)
        survivors == Survivors
    IN  <<Line("total", n, <<>>, <<>>)>>
        \o (IF cli.include_terms # <<>>
            THEN <<Line("include", 0, join(cli.include_terms), <<>>)>> ELSE <<>>)
        \o (IF cli.exclude_terms # <<>>
            THEN <<Line("exclude", 0, join(cli.exclude_terms), <<>>)>> ELSE <<>>)
        \o (IF cli.ignore_case THEN <<Line("ignore_case", 0, <<>>, <<>>)>> ELSE <<>>)
        \o <<Line("blank", 0, <<>>, <<>>)>>
        \o <<Line("filtered", Len(survivors), <<>>, <<>>)>>
        \o (IF cli.count_only THEN <<>>
            ELSE <<Line("blank", 0, <<>>, <<>>),
                   IF survivors = <<>> THEN Line("no_match", 0, <<>>, <<>>)
                   ELSE Line("table", 0, <<>>, survivors)>>)

IsPrefix(s, t) == Len(s) <= Len(t) /\ s = SubSeq(t, 1, Len(s))

\* C7: without json a successful run writes, in this order: the number of
\* decoded records; the include line iff there are include terms; the exclude
\* line iff there are exclude terms; the case notice iff ignore_case; a blank
\* line; the number of survivors; and, unless count_only, a blank line and
\* either the no-match message (no survivors) or the table of the survivors.
C7_HumanReportOrder ==
    (Running /\ ~cli.json /\ ~validation_fails(cli) /\ DecodedOk) =>
        /\ IsPrefix(out, HumanReport)
        /\ pc = "done" => (result = "Ok" /\ out = HumanReport)

\* C7 witness: a finished report with both term lines, the case notice and a
\* table of fewer survivors than records
C7_Witness ==
    /\ Running
    /\ ~cli.json
    /\ ~cli.count_only
    /\ cli.ignore_case
    /\ cli.include_terms # <<>>
    /\ cli.exclude_terms # <<>>
    /\ pc = "done"
    /\ result = "Ok"
    /\ Len(out) = 8
    /\ out[8].kind = "table"
    /\ Len(out[8].rows) < Len(problems)

\* the text is a JSON array whose every element has a string resource, a
\* non-negative integer startLineNumber and a string message
WellFormed(text) ==
    /\ text.kind = "array"
    /\ \A i \in 1..Len(text.items) :
           /\ text.items[i].resource.t = "string"
           /\ text.items[i].startLineNumber.t \in {"uint", "bignum"}
           /\ text.items[i].message.t = "string"

\* C9: when read_fn fails or the text is not such an array, run_app returns an
\* error and has written nothing; no record of a partly valid input is
\* decoded, filtered or rendered.
C9_DecodeAllOrNothing ==
    (Running /\ (~source.ok \/ ~WellFormed(source.text))) =>
        /\ out = <<>>
        /\ problems = <<>>
        /\ filtered_problems = <<>>
        /\ pc \in {"validate", "read", "decode", "done"}
        /\ pc = "done" => result \in Errors

\* C9 witness: a decode error on an array whose first element is valid
C9_Witness ==
    /\ Running
    /\ pc = "done"
    /\ result = "Err(decode)"
    /\ source.text.kind = "array"
    /\ Len(source.text.items) >= 2
    /\ deserialize_problem(source.text.items[1]).ok
    /\ ~WellFormed(source.text)

====
